---- MODULE Spec2Model ----
(***************************************************************************)
(* EnhancedTCMVisualization (src/unnamed/part_000): the display-mode state *)
(* machine of the textile colour visualizer, its materials, mesh overlay,  *)
(* lining, stems and rotation, its camera moves and frames, and the colour *)
(* controls of the page (src/src/components/ui.js), as a state machine.    *)
(*                                                                         *)
(* Numbers.  Opacities, transparency levels and stem offsets are held in   *)
(* thousandths (1.0 is 1000), rotation angles in thousandths of a radian,  *)
(* camera coordinates in thousandths of a scene unit, and a colour is its  *)
(* 24-bit 0xRRGGBB value.  THREE.Color objects are never mutated in place  *)
(* by this program (every setter receives a fresh object, ui.js:510-511),  *)
(* so a colour held by reference in a material is modelled by its value.   *)
(***************************************************************************)
EXTENDS Integers, Sequences, FiniteSets, TLC

VARIABLES
    displayMode, showGradient, useGrayLining, showCircularGradient,
    showMesh, invertMeshColor, transparencyLevel,
    currentColor, complementaryColor,
    isRotating, rotationSpeed,
    useCurvedStem, stemMaxOffset, showMultipleStems, curvedStemSegments,
    cylinder, innerCylinder, knitPattern, centerLine,
    \* the grid, the theme and the scene's background
    showGrid, isDarkMode, gridHelper, background,
    camera, controls,
    consoleErrors,
    \* the camera loops waiting in requestAnimationFrame, oldest first
    cameraAnimations,
    savedCameraPosition, savedCameraTarget, defaultCameraPosition,
    \* ui.js: the values of the two hex input fields
    colorHex, complementaryColorHex,
    \* history: the pose asked for by the latest camera request, and the
    \* number of camera requests made
    lastRequested, cameraRequests

vars == <<displayMode, showGradient, useGrayLining, showCircularGradient,
          showMesh, invertMeshColor, transparencyLevel,
          currentColor, complementaryColor,
          isRotating, rotationSpeed,
          useCurvedStem, stemMaxOffset, showMultipleStems, curvedStemSegments,
          cylinder, innerCylinder, knitPattern, centerLine,
          showGrid, isDarkMode, gridHelper, background,
          camera, controls,
          consoleErrors,
          cameraAnimations,
          savedCameraPosition, savedCameraTarget, defaultCameraPosition,
          colorHex, complementaryColorHex,
          lastRequested, cameraRequests>>

----------------------------------------------------------------------------
(* Bounds of the model *)

\* invalid setDisplayMode calls whose console.error line is counted
MaxErrors == 1
\* largest rotation angle (thousandths of a radian) a frame may reach
MaxAngle == 10
\* camera requests (preset, fit, reset) made in one run
MaxRequests == 3

----------------------------------------------------------------------------
(* Program constants *)

InitialColor == 16734003            \* 0xFF5733
InitialComplementaryColor == 3388927 \* 0x33B5FF
grayLiningColor == 6710886          \* 0x666666
InitialTransparencyLevel == 300     \* 0.3
InitialRotationSpeed == 5           \* 0.005
InitialStemMaxOffset == 400         \* 0.4
InitialStemSegments == 12
FullOpacity == 1000                 \* opacity = 1.0
MinInnerTransparency == 50          \* 0.05
GradientLiningOpacity == 500        \* 0.5

ValidModes == {"knit-pattern", "semi-transparent", "solid"}

----------------------------------------------------------------------------
(* Inputs the actions draw from *)

\* the spec's mode names are not the strings the code accepts
InvalidModes == {"construction", "transparent"}
ModeInputs == ValidModes \cup InvalidModes
\* #FF5733 and a gray (saturation 0)
ColorInputs == {InitialColor, 8421504}
\* #33B5FF and #00A8CC, the channel-wise inversion of #FF5733
ComplementaryInputs == {InitialComplementaryColor, 43212}
\* -0.3, 0.3 and 1.5
TransparencyInputs == {0 - 300, 300, 1500}
\* the time between two frames, in tenths of a second
FrameSteps == {3}

\* stem offsets in thousandths (two outside [0, 1]) and segment counts (two
\* outside [4, 24])
StemOffsetInputs == {0 - 300, 700, 1500}
\* rotation speeds, in thousandths of a radian per frame
RotationSpeedInputs == {5, 10}
SegmentInputs == {1, 8, 30}

\* the two hex digits of a colour channel as typed or picked, either case:
\* the channels of #FF5733 and their complements
ChannelInputs ==
    {<<"0", "0">>, <<"3", "3">>, <<"5", "7">>,
     <<"a", "8">>, <<"c", "C">>, <<"F", "F">>}
\* the '#rrggbb' strings the colour picker and the hex fields deliver
HexInputs ==
    {[k \in 1..7 |-> IF k = 1 THEN "#"
                     ELSE IF k <= 3 THEN r[k - 1]
                     ELSE IF k <= 5 THEN g[k - 3]
                     ELSE b[k - 5]] :
        r \in ChannelInputs, g \in ChannelInputs, b \in ChannelInputs}

----------------------------------------------------------------------------
(* Helpers *)

\* null, and the value of an input field nothing has written
null == [k \in 1..0 |-> 0]

Max(a, b) == IF a >= b THEN a ELSE b
Min(a, b) == IF a <= b THEN a ELSE b

Red(c) == c \div 65536
Green(c) == (c \div 256) % 256
Blue(c) == c % 256
RGB(r, g, b) == r * 65536 + g * 256 + b

(* Color.getHSL, exactly.  With M and m the largest and smallest channel   *)
(* and d = M - m: the lightness is (M + m) / 510, kept as l = M + m; the   *)
(* saturation is d / (M + m) or d / (510 - M - m), kept as its numerator   *)
(* s = d; the hue is a multiple of 1 / (6 d) of a turn, kept as that       *)
(* multiple h together with unit = d (unit = 1 for a gray, whose hue and   *)
(* saturation getHSL reports as 0).                                        *)
getHSL(c) ==
    LET r == Red(c)
        g == Green(c)
        b == Blue(c)
        max == Max(r, Max(g, b))
        min == Min(r, Min(g, b))
        delta == max - min
        hue == IF min = max THEN 0
               ELSE IF max = r THEN (g - b) + (IF g < b THEN 6 * delta ELSE 0)
               ELSE IF max = g THEN (b - r) + 2 * delta
               ELSE (r - g) + 4 * delta
    IN  [h |-> hue, unit |-> IF min = max THEN 1 ELSE delta,
         s |-> delta, l |-> max + min]

(* three.js hue2rgb(p, q, t) with t in units of 1 / (6 u) of a turn and    *)
(* q - p = u: the four pieces p + (q - p) * 6 * t, q,                      *)
(* p + (q - p) * 6 * (2/3 - t) and p.                                      *)
hue2rgb(p, q, t, u) ==
    LET t1 == IF t < 0 THEN t + 6 * u ELSE t
        t2 == IF t1 > 6 * u THEN t1 - 6 * u ELSE t1
    IN  IF t2 < u THEN p + t2
        ELSE IF t2 < 3 * u THEN q
        ELSE IF t2 < 4 * u THEN p + (4 * u - t2)
        ELSE p

(* Color.setHSL: a gray of lightness l when s is 0; otherwise the upper    *)
(* bound l * (1 + s) or l + s - l * s is (l + s) / 2 in channel units, the *)
(* lower bound 2 * l - upper is (l - s) / 2, and the channels are          *)
(* hue2rgb(lower, upper, ..) at h + 1/3, h and h - 1/3.                    *)
setHSL(hsl) ==
    IF hsl.s = 0
    THEN RGB(hsl.l \div 2, hsl.l \div 2, hsl.l \div 2)
    ELSE LET upper == (hsl.l + hsl.s) \div 2
             lower == (hsl.l - hsl.s) \div 2
             h == hsl.h % (6 * hsl.unit)
         IN  RGB(hue2rgb(lower, upper, h + 2 * hsl.unit, hsl.unit),
                 hue2rgb(lower, upper, h, hsl.unit),
                 hue2rgb(lower, upper, h - 2 * hsl.unit, hsl.unit))

\* the hue moved by a third of a turn instead of half a turn
HueInvert_ThirdTurn(c) ==
    LET hsl == getHSL(c)
    IN  setHSL([hsl EXCEPT !.h = (hsl.h + 2 * hsl.unit) % (6 * hsl.unit)])

(* updateKnitPatternColor's inverted colour: getHSL, h = (h + 0.5) % 1.0,  *)
(* setHSL with s and l as read.                                            *)
HueInvert(c) ==
    LET hsl == getHSL(c)
    IN  setHSL([hsl EXCEPT !.h = (hsl.h + 3 * hsl.unit) % (6 * hsl.unit)])

(* The five control colours of a curved stem, each a triple of channels in *)
(* tenths of an 8-bit step: black, color * 0.3, color,                     *)
(* color.lerp(white, 0.7) = 0.3 * color + 0.7 * 255, white.                *)
StemColors(c) ==
    << <<0, 0, 0>>,
       <<3 * Red(c), 3 * Green(c), 3 * Blue(c)>>,
       <<10 * Red(c), 10 * Green(c), 10 * Blue(c)>>,
       <<3 * Red(c) + 1785, 3 * Green(c) + 1785, 3 * Blue(c) + 1785>>,
       <<2550, 2550, 2550>> >>

----------------------------------------------------------------------------
(* Colour text (ui.js).  A string is the sequence of its characters.       *)

HexDigits == <<"0", "1", "2", "3", "4", "5", "6", "7",
               "8", "9", "a", "b", "c", "d", "e", "f">>
UpperHexDigits == <<"0", "1", "2", "3", "4", "5", "6", "7",
                    "8", "9", "A", "B", "C", "D", "E", "F">>

\* a string built by any of the operators below, in one representation
Str(s) == [k \in 1..Len(s) |-> s[k]]

\* the value parseInt(.., 16) gives a hex digit of either case
HexValue(ch) ==
    CHOOSE v \in 0..15 : ch = HexDigits[v + 1] \/ ch = UpperHexDigits[v + 1]

\* String.prototype.toUpperCase on the characters of a colour string
toUpperCase(s) ==
    [k \in 1..Len(s) |->
        IF \E v \in 0..15 : s[k] = HexDigits[v + 1]
        THEN UpperHexDigits[HexValue(s[k]) + 1]
        ELSE s[k]]

\* hexColor.replace('#', ''): the first '#' is dropped
replaceHash(s) ==
    IF \E k \in 1..Len(s) : s[k] = "#"
    THEN LET first == CHOOSE k \in 1..Len(s) :
                          /\ s[k] = "#"
                          /\ \A j \in 1..(k - 1) : s[j] # "#"
         IN  Str(SubSeq(s, 1, first - 1) \o SubSeq(s, first + 1, Len(s)))
    ELSE s

\* parseInt(hex.substr(start, 2), 16), start counted from 0
parseInt16(hex, start) ==
    16 * HexValue(hex[start + 1]) + HexValue(hex[start + 2])

\* Number.prototype.toString(16) of a channel: no leading zero
toString16(n) ==
    IF n < 16 THEN Str(<<HexDigits[n + 1]>>)
    ELSE Str(<<HexDigits[(n \div 16) + 1], HexDigits[(n % 16) + 1]>>)

\* padStart(2, '0')
padStart(s) ==
    IF Len(s) >= 2 THEN s ELSE Str([k \in 1..(2 - Len(s)) |-> "0"] \o s)

\* the channels written without padStart
calculateComplementaryColor_NoPadding(hexColor) ==
    LET hex == replaceHash(hexColor)
        compR == 255 - parseInt16(hex, 0)
        compG == 255 - parseInt16(hex, 2)
        compB == 255 - parseInt16(hex, 4)
    IN  Str(<<"#">> \o toString16(compR) \o toString16(compG)
                   \o toString16(compB))

calculateComplementaryColor(hexColor) ==
    LET hex == replaceHash(hexColor)
        compR == 255 - parseInt16(hex, 0)
        compG == 255 - parseInt16(hex, 2)
        compB == 255 - parseInt16(hex, 4)
    IN  Str(<<"#">> \o padStart(toString16(compR))
                   \o padStart(toString16(compG))
                   \o padStart(toString16(compB)))

\* new THREE.Color('#rrggbb')
Color(hexColor) ==
    LET hex == replaceHash(hexColor)
    IN  RGB(parseInt16(hex, 0), parseInt16(hex, 2), parseInt16(hex, 4))

----------------------------------------------------------------------------
(* The object: `this` as a record of the fields above *)

This ==
    [displayMode |-> displayMode, showGradient |-> showGradient,
     useGrayLining |-> useGrayLining,
     showCircularGradient |-> showCircularGradient,
     showMesh |-> showMesh, invertMeshColor |-> invertMeshColor,
     transparencyLevel |-> transparencyLevel,
     currentColor |-> currentColor, complementaryColor |-> complementaryColor,
     isRotating |-> isRotating, rotationSpeed |-> rotationSpeed,
     useCurvedStem |-> useCurvedStem, stemMaxOffset |-> stemMaxOffset,
     showMultipleStems |-> showMultipleStems,
     curvedStemSegments |-> curvedStemSegments,
     cylinder |-> cylinder, innerCylinder |-> innerCylinder,
     knitPattern |-> knitPattern, centerLine |-> centerLine,
     showGrid |-> showGrid, isDarkMode |-> isDarkMode,
     gridHelper |-> gridHelper, background |-> background,
     camera |-> camera, controls |-> controls,
     consoleErrors |-> consoleErrors,
     cameraAnimations |-> cameraAnimations,
     savedCameraPosition |-> savedCameraPosition,
     savedCameraTarget |-> savedCameraTarget,
     defaultCameraPosition |-> defaultCameraPosition]

----------------------------------------------------------------------------
(* Materials *)

\* createTCSMaterial(color, isTransparent = false, opacity = 1.0)
createTCSMaterial(color, isTransparent, opacity) ==
    [type |-> "ShaderMaterial",
     uniforms |-> [mainColor |-> color, opacity |-> opacity],
     side |-> "DoubleSide", transparent |-> isTransparent,
     opacity |-> opacity, wireframe |-> FALSE]

\* new THREE.MeshBasicMaterial({color, wireframe: true, side: DoubleSide})
MeshBasicMaterial(color) ==
    [type |-> "MeshBasicMaterial", color |-> color, wireframe |-> TRUE,
     side |-> "DoubleSide", transparent |-> FALSE, opacity |-> FullOpacity]

\* the material applyCircularGradient builds: uniforms mainColor and color2
\* only, the fragment shader writes alpha 0.8 itself
CircularGradientMaterial(t) ==
    [type |-> "ShaderMaterial",
     uniforms |-> [mainColor |-> t.currentColor,
                   color2 |-> t.complementaryColor],
     side |-> "DoubleSide", transparent |-> TRUE,
     opacity |-> FullOpacity, wireframe |-> FALSE]

\* this.originalMaterials, cloned once in createVisualization
originalMaterials ==
    [cylinder |-> createTCSMaterial(InitialColor, FALSE, FullOpacity),
     innerCylinder |->
        [createTCSMaterial(InitialComplementaryColor, FALSE, FullOpacity)
            EXCEPT !.side = "BackSide", !.opacity = GradientLiningOpacity]]

HasUniform(m, name) ==
    /\ m.type = "ShaderMaterial"
    /\ name \in DOMAIN m.uniforms

----------------------------------------------------------------------------
(* Stems *)

CurvedStem(t, i, n) ==
    [i |-> i, of |-> n, offset |-> t.stemMaxOffset,
     colors |-> StemColors(t.currentColor)]

\* a new THREE.Group (rotation 0) holding the straight stem and the curved
\* stems: curvedStemSegments of them at angles 2*pi*i/segments, or one at 0
createCurvedStem(t) ==
    LET segments == IF t.curvedStemSegments = 0 THEN InitialStemSegments
                    ELSE t.curvedStemSegments
        curved == IF t.showMultipleStems
                  THEN [k \in 1..segments |-> CurvedStem(t, k - 1, segments)]
                  ELSE [k \in 1..1 |-> CurvedStem(t, 0, 1)]
    IN  [t EXCEPT !.centerLine =
            [isGroup |-> TRUE, straight |-> t.currentColor,
             curved |-> curved, rotation |-> 0]]

createStraightStem(t) ==
    [t EXCEPT !.centerLine =
        [isGroup |-> FALSE, straight |-> t.currentColor,
         curved |-> [k \in 1..0 |-> CurvedStem(t, 0, 1)], rotation |-> 0]]

\* only children whose material has a colors uniform are updated: the
\* straight stem inside the group (MeshPhongMaterial) is skipped
updateStemColor(t, color) ==
    LET recolor(stem) ==
            [stem EXCEPT !.colors =
                << stem.colors[1], StemColors(color)[2], StemColors(color)[3],
                   StemColors(color)[4], stem.colors[5] >>]
        children == t.centerLine.curved
    IN  IF t.useCurvedStem
        THEN IF t.centerLine.isGroup
             THEN [t EXCEPT !.centerLine.curved =
                      [k \in 1..Len(children) |-> recolor(children[k])]]
             ELSE t
        ELSE [t EXCEPT !.centerLine.straight = t.currentColor]

\* the offset is stored as given
setStemOffset(t, offset) ==
    LET t1 == [t EXCEPT !.stemMaxOffset = offset]
    IN  IF t1.useCurvedStem THEN createCurvedStem(t1) ELSE t1

MinStemSegments == 4
MaxStemSegments == 24

setStemSegments_NoClamp(t, segments) ==
    LET t1 == [t EXCEPT !.curvedStemSegments = segments]
    IN  IF t1.useCurvedStem THEN createCurvedStem(t1) ELSE t1

\* segments = Math.max(4, Math.min(segments, 24))
setStemSegments(t, segments) ==
    LET t1 == [t EXCEPT !.curvedStemSegments =
                   Max(MinStemSegments, Min(segments, MaxStemSegments))]
    IN  IF t1.useCurvedStem THEN createCurvedStem(t1) ELSE t1

toggleCurvedStem(t, useCurved) ==
    LET t1 == [t EXCEPT !.useCurvedStem = useCurved]
    IN  IF useCurved THEN createCurvedStem(t1) ELSE createStraightStem(t1)

\* toggleMultipleStems that only records the flag
toggleMultipleStems_NoRebuild(t, showMultiple) ==
    [t EXCEPT !.showMultipleStems = showMultiple]

toggleMultipleStems(t, showMultiple) ==
    LET t1 == [t EXCEPT !.showMultipleStems = showMultiple]
    IN  IF t1.useCurvedStem THEN createCurvedStem(t1) ELSE t1

----------------------------------------------------------------------------
(* Grid, theme and rotation speed *)

\* new THREE.GridHelper(10, 10, centerColor, gridColor); the defaults of the
\* library are the colours of the light theme (0x444444 and 0x888888)
GridHelper(dark, visible) ==
    [visible |-> visible,
     centerColor |-> IF dark THEN 6710886 ELSE 4473924,
     gridColor |-> IF dark THEN 5592405 ELSE 8947848]

toggleGrid(t, show) ==
    [t EXCEPT !.showGrid = show, !.gridHelper.visible = show]

updateSceneBackground(t) ==
    [t EXCEPT !.background = IF t.isDarkMode THEN 2763306 ELSE 15790320]

updateGridColors(t) ==
    [t EXCEPT !.gridHelper = GridHelper(t.isDarkMode, t.showGrid)]

setTheme(t, dark) ==
    updateGridColors(updateSceneBackground([t EXCEPT !.isDarkMode = dark]))

setRotationSpeed(t, speed) == [t EXCEPT !.rotationSpeed = speed]

----------------------------------------------------------------------------
(* Mesh overlay *)

updateKnitPatternColor(t) ==
    LET meshColor == IF t.invertMeshColor THEN HueInvert(t.currentColor)
                     ELSE t.currentColor
    IN  [t EXCEPT !.knitPattern.color = meshColor,
                  !.knitPattern.childColor = meshColor]

\* toggleMeshColorInversion that inverts the colour the mesh has now
\* instead of deriving it from currentColor
toggleMeshColorInversion_InvertsShown(t, invert) ==
    LET meshColor == IF invert THEN HueInvert(t.knitPattern.color)
                     ELSE t.currentColor
    IN  [t EXCEPT !.invertMeshColor = invert,
                  !.knitPattern.color = meshColor,
                  !.knitPattern.childColor = meshColor]

toggleMeshColorInversion(t, invert) ==
    updateKnitPatternColor([t EXCEPT !.invertMeshColor = invert])

\* toggleMesh without the test for construction mode
toggleMesh_IgnoresMode(t, show) ==
    [t EXCEPT !.showMesh = show, !.knitPattern.visible = show]

toggleMesh(t, show) ==
    LET t1 == [t EXCEPT !.showMesh = show]
    IN  IF t1.displayMode # "knit-pattern"
        THEN [t1 EXCEPT !.knitPattern.visible = show]
        ELSE t1

----------------------------------------------------------------------------
(* Lining and colours *)

updateGradient(t) ==
    LET liningColor == IF t.useGrayLining THEN grayLiningColor
                       ELSE t.complementaryColor
    IN  [t EXCEPT !.innerCylinder.visible = TRUE,
                  !.innerCylinder.material =
                      [createTCSMaterial(liningColor, FALSE, FullOpacity)
                          EXCEPT !.side = "BackSide",
                                 !.opacity = GradientLiningOpacity]]

(* setColor.  `innerCylinder.material.color = complementaryColor` sets the  *)
(* colour of a MeshBasicMaterial; on a ShaderMaterial it only creates a     *)
(* property no shader reads, which is not kept.  The cylinder's uniform     *)
(* color1 does not exist in any material the program builds.                *)
setColor(t, color) ==
    LET t1 == [t EXCEPT !.currentColor = color]
        t2 == IF t1.cylinder.material.type = "ShaderMaterial"
              THEN IF HasUniform(t1.cylinder.material, "mainColor")
                   THEN [t1 EXCEPT !.cylinder.material.uniforms.mainColor
                                        = t1.currentColor]
                   ELSE t1
              ELSE [t1 EXCEPT !.cylinder.material.color = t1.currentColor]
        t3 == IF t2.innerCylinder.material.type = "ShaderMaterial"
              THEN t2
              ELSE [t2 EXCEPT !.innerCylinder.material.color
                                   = t2.complementaryColor]
        t4 == updateStemColor(t3, t3.currentColor)
        t5 == [t4 EXCEPT !.knitPattern.color = t4.currentColor,
                         !.knitPattern.childColor = t4.currentColor]
    IN  IF t5.showGradient THEN updateGradient(t5) ELSE t5

\* setComplementaryColor without the regeneration of the lining
setComplementaryColor_NoRegeneration(t, color) ==
    LET t1 == [t EXCEPT !.complementaryColor = color]
    IN  IF HasUniform(t1.innerCylinder.material, "mainColor")
        THEN [t1 EXCEPT !.innerCylinder.material.uniforms.mainColor
                             = t1.complementaryColor]
        ELSE [t1 EXCEPT !.innerCylinder.material.color
                             = t1.complementaryColor]

setComplementaryColor(t, color) ==
    LET t1 == [t EXCEPT !.complementaryColor = color]
        t2 == IF HasUniform(t1.innerCylinder.material, "mainColor")
              THEN [t1 EXCEPT !.innerCylinder.material.uniforms.mainColor
                                   = t1.complementaryColor]
              ELSE [t1 EXCEPT !.innerCylinder.material.color
                                   = t1.complementaryColor]
    IN  IF t2.showGradient THEN updateGradient(t2) ELSE t2

\* toggleGradient(false) that forgets to hide the inner cylinder
toggleGradient_KeepsLining(t, show) ==
    LET t1 == [t EXCEPT !.showGradient = show]
    IN  IF show
        THEN updateGradient(t1)
        ELSE IF ~t1.showCircularGradient
             THEN [t1 EXCEPT !.cylinder.material =
                      createTCSMaterial(t1.currentColor, FALSE, FullOpacity)]
             ELSE t1

toggleGradient(t, show) ==
    LET t1 == [t EXCEPT !.showGradient = show]
    IN  IF show
        THEN updateGradient(t1)
        ELSE LET t2 == [t1 EXCEPT !.innerCylinder.visible = FALSE]
             IN  IF ~t2.showCircularGradient
                 THEN [t2 EXCEPT !.cylinder.material =
                          createTCSMaterial(t2.currentColor, FALSE,
                                            FullOpacity)]
                 ELSE t2

\* toggleGrayLining that also switches the lining on
toggleGrayLining_EnablesLining(t, useGray) ==
    LET t1 == [t EXCEPT !.useGrayLining = useGray,
                        !.showGradient = @ \/ useGray]
    IN  IF t1.showGradient THEN updateGradient(t1) ELSE t1

toggleGrayLining(t, useGray) ==
    LET t1 == [t EXCEPT !.useGrayLining = useGray]
    IN  IF t1.showGradient THEN updateGradient(t1) ELSE t1

applyCircularGradient(t) ==
    [t EXCEPT !.cylinder.material = CircularGradientMaterial(t)]

toggleCircularGradient(t, show) ==
    LET t1 == [t EXCEPT !.showCircularGradient = show]
    IN  IF show
        THEN applyCircularGradient(t1)
        ELSE LET t2 == [t1 EXCEPT !.cylinder.material =
                           createTCSMaterial(t1.currentColor, FALSE,
                                             FullOpacity)]
             IN  IF t2.showGradient THEN updateGradient(t2) ELSE t2

\* setTransparencyLevel storing the level as given
setTransparencyLevel_NoClamp(t, level) ==
    LET t1 == [t EXCEPT !.transparencyLevel = level]
        innerTransparency ==
            Max(MinInnerTransparency, t1.transparencyLevel \div 2)
        t2 == IF HasUniform(t1.cylinder.material, "opacity")
              THEN [t1 EXCEPT !.cylinder.material.uniforms.opacity
                                   = t1.transparencyLevel]
              ELSE t1
        t3 == IF HasUniform(t2.innerCylinder.material, "opacity")
              THEN [t2 EXCEPT !.innerCylinder.material.uniforms.opacity
                                   = innerTransparency]
              ELSE t2
    IN  IF t1.displayMode = "semi-transparent" THEN t3 ELSE t1

\* setTransparencyLevel writing the opacity uniforms in every mode
setTransparencyLevel_EveryMode(t, level) ==
    LET t1 == [t EXCEPT !.transparencyLevel = Max(0, Min(FullOpacity, level))]
        innerTransparency ==
            Max(MinInnerTransparency, t1.transparencyLevel \div 2)
        t2 == IF HasUniform(t1.cylinder.material, "opacity")
              THEN [t1 EXCEPT !.cylinder.material.uniforms.opacity
                                   = t1.transparencyLevel]
              ELSE t1
    IN  IF HasUniform(t2.innerCylinder.material, "opacity")
        THEN [t2 EXCEPT !.innerCylinder.material.uniforms.opacity
                             = innerTransparency]
        ELSE t2

setTransparencyLevel(t, level) ==
    LET t1 == [t EXCEPT !.transparencyLevel = Max(0, Min(FullOpacity, level))]
        innerTransparency ==
            Max(MinInnerTransparency, t1.transparencyLevel \div 2)
        t2 == IF HasUniform(t1.cylinder.material, "opacity")
              THEN [t1 EXCEPT !.cylinder.material.uniforms.opacity
                                   = t1.transparencyLevel]
              ELSE t1
        t3 == IF HasUniform(t2.innerCylinder.material, "opacity")
              THEN [t2 EXCEPT !.innerCylinder.material.uniforms.opacity
                                   = innerTransparency]
              ELSE t2
    IN  IF t1.displayMode = "semi-transparent" THEN t3 ELSE t1

----------------------------------------------------------------------------
(* Vectors and OrbitControls.  A vector is the triple of its coordinates   *)
(* in thousandths.                                                         *)

LengthSq(v) == v[1] * v[1] + v[2] * v[2] + v[3] * v[3]

Offset(position, target) ==
    [k \in 1..3 |-> position[k] - target[k]]

\* the largest integer whose square is at most n, found between lo and hi
RECURSIVE SqrtBetween(_, _, _)
SqrtBetween(n, lo, hi) ==
    IF lo >= hi THEN lo
    ELSE LET mid == (lo + hi + 1) \div 2
         IN  IF mid * mid <= n THEN SqrtBetween(n, mid, hi)
             ELSE SqrtBetween(n, lo, mid - 1)

Length(v) == SqrtBetween(LengthSq(v), 0, 20000)

Abs(x) == IF x < 0 THEN 0 - x ELSE x
Sign(x) == IF x < 0 THEN 0 - 1 ELSE 1

\* setupControls: controls.minDistance = 2, controls.maxDistance = 10
MinDistance == 2000
MaxDistance == 10000

(* OrbitControls.update(): the camera is put back on the sphere of radius  *)
(* clamp(|position - target|, minDistance, maxDistance) around the target, *)
(* in the direction it already has (a camera on the target itself is put   *)
(* straight above it).  Coordinates are rounded away from the target when  *)
(* pushed out to minDistance and towards it when pulled in to maxDistance, *)
(* so that the result is within the limits.  No user input is modelled, so *)
(* the damped deltas are zero; every pose of the model has y >= 0, so the  *)
(* maxPolarAngle limit of 0.85 pi is not reached.                          *)
controlsUpdate(t) ==
    LET offset == Offset(t.camera.position, t.controls.target)
        radius == Length(offset)
        clamped ==
            IF LengthSq(offset) = 0 THEN <<0, MinDistance, 0>>
            ELSE IF LengthSq(offset) < MinDistance * MinDistance
            THEN [k \in 1..3 |->
                    Sign(offset[k])
                      * ((Abs(offset[k]) * MinDistance + radius - 1)
                            \div radius)]
            ELSE IF LengthSq(offset) > MaxDistance * MaxDistance
            THEN [k \in 1..3 |->
                    Sign(offset[k])
                      * ((Abs(offset[k]) * MaxDistance) \div (radius + 1))]
            ELSE offset
    IN  [t EXCEPT !.camera.position =
                      [k \in 1..3 |-> t.controls.target[k] + clamped[k]]]

----------------------------------------------------------------------------
(* Rotation and the frame *)

\* toggleRotation without the reset of the three angles
toggleRotation_NoReset(t, rotating) ==
    [t EXCEPT !.isRotating = rotating]

toggleRotation(t, rotating) ==
    LET t1 == [t EXCEPT !.isRotating = rotating]
    IN  IF rotating
        THEN [t1 EXCEPT !.cylinder.rotation = 0,
                        !.innerCylinder.rotation = 0,
                        !.centerLine.rotation = 0]
        ELSE t1

\* the main loop's callback: the rotation advance and controls.update(),
\* then renderer.render draws the state this returns (the stem's time
\* uniform changes no field kept here)
animate(t) ==
    controlsUpdate(
        IF t.isRotating
        THEN [t EXCEPT !.cylinder.rotation = @ + t.rotationSpeed,
                       !.innerCylinder.rotation = @ + t.rotationSpeed,
                       !.centerLine.rotation = @ + t.rotationSpeed]
        ELSE t)

----------------------------------------------------------------------------
(* Camera *)

(* The class body defines resetCamera three times; the last definition     *)
(* (lines 1679-1683) is the method.  OrbitControls.reset() copies the pose *)
(* saved when the controls were built (target0, position0) back onto the   *)
(* target and the camera.                                                  *)
resetCamera(t) ==
    LET t1 == [t EXCEPT !.camera.position = <<0, 2000, 5000>>]
    IN  [t1 EXCEPT !.controls.target = t1.controls.target0,
                   !.camera.position = t1.controls.position0]

(* Time is counted in tenths of a second.  A camera loop is the closure    *)
(* `animate` of _animateCamera or animateCameraMove: the pose it started   *)
(* from, the pose it moves to, its duration and, in place of its startTime,*)
(* the time elapsed since then (Date.now() - startTime at its next call).  *)

\* _animateCamera: duration = 800
AnimateCameraDuration == 8
\* animateCameraMove: duration = 1000
CameraMoveDuration == 10

\* progress = Math.min(elapsed / duration, 1) as the elapsed time it stands
\* for, and ease = 1 - Math.pow(1 - progress, 3) as a fraction over
\* duration^3
EaseDenominator(a) == a.duration * a.duration * a.duration
EaseNumerator(a) ==
    LET left == a.duration - Min(a.elapsed, a.duration)
    IN  EaseDenominator(a) - left * left * left

\* Vector3.lerpVectors(v1, v2, ease)
lerpVectors(v1, v2, num, den) ==
    [k \in 1..3 |-> v1[k] + ((v2[k] - v1[k]) * num) \div den]

\* one call of a camera loop: the interpolated pose, controls.update(), and
\* the loop back in the queue while progress < 1
cameraAnimate(t, a) ==
    LET t1 == [t EXCEPT
                 !.camera.position =
                     lerpVectors(a.startPosition, a.newPosition,
                                 EaseNumerator(a), EaseDenominator(a)),
                 !.controls.target =
                     lerpVectors(a.startTarget, a.newTarget,
                                 EaseNumerator(a), EaseDenominator(a))]
        t2 == controlsUpdate(t1)
    IN  IF a.elapsed < a.duration
        THEN [t2 EXCEPT !.cameraAnimations = Append(@, a)]
        ELSE t2

\* the loop a move starts, and its first call, made before the request
\* returns
StartCameraLoop(t, position, target, duration) ==
    cameraAnimate(t, [startPosition |-> t.camera.position,
                      startTarget |-> t.controls.target,
                      newPosition |-> position, newTarget |-> target,
                      elapsed |-> 0, duration |-> duration])

animateCamera(t, targetPosition, targetLookAt) ==
    StartCameraLoop(t, targetPosition, targetLookAt, AnimateCameraDuration)

animateCameraMove(t, newPosition, newTarget) ==
    StartCameraLoop(t, newPosition, newTarget, CameraMoveDuration)

setSideView(t) == animateCamera(t, <<5000, 0, 0>>, <<0, 0, 0>>)

setCrossSectionView(t) == animateCamera(t, <<1000, 0, 0>>, <<0, 0, 0>>)

\* the pose zoomToFit uses when none is saved: (0.00503.., 2.33619..,
\* 1.94048..) looking at the origin
FitPosition == <<5, 2336, 1940>>
FitTarget == <<0, 0, 0>>

\* zoomToFit that never looks at the saved pose
zoomToFit_IgnoresSaved(t) == animateCameraMove(t, FitPosition, FitTarget)

zoomToFit(t) ==
    IF t.savedCameraPosition # null /\ t.savedCameraTarget # null
    THEN animateCameraMove(t, t.savedCameraPosition, t.savedCameraTarget)
    ELSE animateCameraMove(t, FitPosition, FitTarget)

setCamera(t) ==
    [t EXCEPT !.savedCameraPosition = t.camera.position,
              !.savedCameraTarget = t.controls.target,
              !.defaultCameraPosition =
                  [position |-> t.camera.position,
                   lookAt |-> t.controls.target]]

setCurrentCameraAsDefault(t) ==
    [t EXCEPT !.defaultCameraPosition =
                  [position |-> t.camera.position,
                   lookAt |-> t.controls.target]]

(* One frame of the browser, dt after the last.  The callbacks registered  *)
(* with requestAnimationFrame run in the order they were registered.  The  *)
(* main loop registers itself first thing in its own callback, so it is    *)
(* ahead of every camera loop: `animate` (with its renderer.render) runs   *)
(* first, then the camera loops, oldest first.                             *)
RECURSIVE RunCameraLoops(_, _)
RunCameraLoops(t, pending) ==
    IF Len(pending) = 0 THEN t
    ELSE RunCameraLoops(cameraAnimate(t, Head(pending)), Tail(pending))

frame(t, dt) ==
    LET t1 == animate(t)
        pending == [k \in 1..Len(t1.cameraAnimations) |->
                      [t1.cameraAnimations[k] EXCEPT !.elapsed = @ + dt]]
    IN  RunCameraLoops([t1 EXCEPT !.cameraAnimations = [k \in 1..0 |-> 0]],
                       pending)

----------------------------------------------------------------------------
(* Display mode *)

\* setDisplayMode without the validity test
IsValidMode_AcceptsAll(mode) == TRUE

IsValidMode(mode) == mode \in ValidModes

setDisplayMode(t, mode) ==
    IF ~IsValidMode(mode)
    THEN [t EXCEPT !.consoleErrors = @ + 1]
    ELSE
    LET t1 == [t EXCEPT !.displayMode = mode]
        \* reset materials to the originals, hide the knit pattern
        t2 == [t1 EXCEPT
                 !.cylinder.material =
                     [originalMaterials.cylinder EXCEPT !.side = "DoubleSide"],
                 !.innerCylinder.material =
                     [originalMaterials.innerCylinder
                         EXCEPT !.side = "DoubleSide"],
                 !.knitPattern.visible = FALSE]
        \* switch (mode)
        t3 == CASE mode = "knit-pattern" ->
                     updateKnitPatternColor(
                         [t2 EXCEPT !.knitPattern.visible = TRUE,
                                    !.cylinder.material.wireframe = TRUE,
                                    !.innerCylinder.material.wireframe = TRUE])
                [] mode \in {"semi-transparent", "solid"} ->
                     [t2 EXCEPT !.knitPattern.visible = t2.showMesh,
                                !.cylinder.material.wireframe = FALSE,
                                !.innerCylinder.material.wireframe = FALSE]
                [] OTHER -> t2
        innerColor == IF t3.useGrayLining THEN grayLiningColor
                      ELSE t3.complementaryColor
        innerTransparency ==
            Max(MinInnerTransparency, t3.transparencyLevel \div 2)
        \* materials of the mode
        t4 == CASE mode = "solid" ->
                     [t3 EXCEPT
                        !.cylinder.material =
                            createTCSMaterial(t3.currentColor, FALSE,
                                              FullOpacity),
                        !.innerCylinder.material =
                            createTCSMaterial(innerColor, FALSE, FullOpacity)]
                [] mode = "semi-transparent" ->
                     [t3 EXCEPT
                        !.cylinder.material =
                            createTCSMaterial(t3.currentColor, TRUE,
                                              t3.transparencyLevel),
                        !.innerCylinder.material =
                            createTCSMaterial(innerColor, TRUE,
                                              innerTransparency)]
                [] mode = "knit-pattern" ->
                     [t3 EXCEPT
                        !.cylinder.material =
                            MeshBasicMaterial(t3.currentColor),
                        !.innerCylinder.material =
                            MeshBasicMaterial(innerColor)]
                [] OTHER -> t3
    IN  setColor(t4, t4.currentColor)

\* resetToDefaultView that leaves the circular-gradient flag alone
resetToDefaultView_KeepsCircular(t) ==
    LET t1 == [t EXCEPT !.showGradient = FALSE,
                        !.useGrayLining = FALSE,
                        !.isRotating = FALSE,
                        !.cylinder.rotation = 0,
                        !.innerCylinder.rotation = 0,
                        !.centerLine.rotation = 0]
    IN  setDisplayMode(resetCamera(t1), "solid")

resetToDefaultView(t) ==
    LET t1 == [t EXCEPT !.showGradient = FALSE,
                        !.useGrayLining = FALSE,
                        !.showCircularGradient = FALSE,
                        !.isRotating = FALSE,
                        !.cylinder.rotation = 0,
                        !.innerCylinder.rotation = 0,
                        !.centerLine.rotation = 0]
    IN  setDisplayMode(resetCamera(t1), "solid")

----------------------------------------------------------------------------
(* Construction *)

\* the fields the constructor sets, and the objects createVisualization,
\* setupCamera and setupControls build, before init calls setDisplayMode
Constructed ==
    LET fields ==
            [displayMode |-> "solid", showGradient |-> FALSE,
             useGrayLining |-> FALSE, showCircularGradient |-> FALSE,
             showMesh |-> FALSE, invertMeshColor |-> FALSE,
             transparencyLevel |-> InitialTransparencyLevel,
             currentColor |-> InitialColor,
             complementaryColor |-> InitialComplementaryColor,
             isRotating |-> FALSE, rotationSpeed |-> InitialRotationSpeed,
             useCurvedStem |-> TRUE, stemMaxOffset |-> InitialStemMaxOffset,
             showMultipleStems |-> FALSE,
             curvedStemSegments |-> InitialStemSegments,
             cylinder |-> [material |-> originalMaterials.cylinder,
                           rotation |-> 0],
             innerCylinder |-> [visible |-> FALSE,
                                material |-> originalMaterials.innerCylinder,
                                rotation |-> 0],
             knitPattern |-> [visible |-> FALSE, color |-> InitialColor,
                              childColor |-> InitialColor],
             centerLine |-> [isGroup |-> FALSE, straight |-> InitialColor,
                             curved |-> [k \in 1..0 |-> 0],
                             rotation |-> 0],
             showGrid |-> TRUE, isDarkMode |-> FALSE,
             gridHelper |-> GridHelper(FALSE, TRUE),
             background |-> 15790320,
             camera |-> [position |-> <<0, 3000, 4000>>],
             controls |-> [target |-> <<0, 0, 0>>,
                           target0 |-> <<0, 0, 0>>,
                           position0 |-> <<0, 3000, 4000>>],
             consoleErrors |-> 0,
             cameraAnimations |-> [k \in 1..0 |-> 0],
             savedCameraPosition |-> null,
             savedCameraTarget |-> null,
             defaultCameraPosition |-> [position |-> <<0, 3000, 4000>>,
                                        lookAt |-> <<0, 0, 0>>]]
    IN  IF fields.useCurvedStem THEN createCurvedStem(fields)
        ELSE createStraightStem(fields)

Constructor == setDisplayMode(Constructed, "solid")

\* the fields of `this` after a handler
Assign(t) ==
    /\ displayMode' = t.displayMode
    /\ showGradient' = t.showGradient
    /\ useGrayLining' = t.useGrayLining
    /\ showCircularGradient' = t.showCircularGradient
    /\ showMesh' = t.showMesh
    /\ invertMeshColor' = t.invertMeshColor
    /\ transparencyLevel' = t.transparencyLevel
    /\ currentColor' = t.currentColor
    /\ complementaryColor' = t.complementaryColor
    /\ isRotating' = t.isRotating
    /\ rotationSpeed' = t.rotationSpeed
    /\ useCurvedStem' = t.useCurvedStem
    /\ stemMaxOffset' = t.stemMaxOffset
    /\ showMultipleStems' = t.showMultipleStems
    /\ curvedStemSegments' = t.curvedStemSegments
    /\ cylinder' = t.cylinder
    /\ innerCylinder' = t.innerCylinder
    /\ knitPattern' = t.knitPattern
    /\ centerLine' = t.centerLine
    /\ showGrid' = t.showGrid
    /\ isDarkMode' = t.isDarkMode
    /\ gridHelper' = t.gridHelper
    /\ background' = t.background
    /\ camera' = t.camera
    /\ controls' = t.controls
    /\ consoleErrors' = t.consoleErrors
    /\ cameraAnimations' = t.cameraAnimations
    /\ savedCameraPosition' = t.savedCameraPosition
    /\ savedCameraTarget' = t.savedCameraTarget
    /\ defaultCameraPosition' = t.defaultCameraPosition

\* a handler of the class, called on its own: the page's inputs keep their
\* values
Apply(t) ==
    /\ Assign(t)
    /\ UNCHANGED <<colorHex, complementaryColorHex, lastRequested,
                   cameraRequests>>

\* the state the constructor leaves, and a page nothing has been typed in
Init ==
    \E c \in {Constructor} :
        /\ displayMode = c.displayMode
        /\ showGradient = c.showGradient
        /\ useGrayLining = c.useGrayLining
        /\ showCircularGradient = c.showCircularGradient
        /\ showMesh = c.showMesh
        /\ invertMeshColor = c.invertMeshColor
        /\ transparencyLevel = c.transparencyLevel
        /\ currentColor = c.currentColor
        /\ complementaryColor = c.complementaryColor
        /\ isRotating = c.isRotating
        /\ rotationSpeed = c.rotationSpeed
        /\ useCurvedStem = c.useCurvedStem
        /\ stemMaxOffset = c.stemMaxOffset
        /\ showMultipleStems = c.showMultipleStems
        /\ curvedStemSegments = c.curvedStemSegments
        /\ cylinder = c.cylinder
        /\ innerCylinder = c.innerCylinder
        /\ knitPattern = c.knitPattern
        /\ centerLine = c.centerLine
        /\ showGrid = c.showGrid
        /\ isDarkMode = c.isDarkMode
        /\ gridHelper = c.gridHelper
        /\ background = c.background
        /\ camera = c.camera
        /\ controls = c.controls
        /\ consoleErrors = c.consoleErrors
        /\ cameraAnimations = c.cameraAnimations
        /\ savedCameraPosition = c.savedCameraPosition
        /\ savedCameraTarget = c.savedCameraTarget
        /\ defaultCameraPosition = c.defaultCameraPosition
        /\ colorHex = null
        /\ complementaryColorHex = null
        /\ lastRequested = [by |-> "none", position |-> null, target |-> null]
        /\ cameraRequests = 0

----------------------------------------------------------------------------
(* Actions: one per call the UI layer makes, and the frame *)

SetDisplayMode ==
    \E mode \in ModeInputs :
        /\ IsValidMode(mode) \/ consoleErrors < MaxErrors
        /\ Apply(setDisplayMode(This, mode))

SetColor == \E color \in ColorInputs : Apply(setColor(This, color))

SetComplementaryColor ==
    \E color \in ComplementaryInputs : Apply(setComplementaryColor(This, color))

ToggleGradient == \E b \in BOOLEAN : Apply(toggleGradient(This, b))

ToggleGrayLining == \E b \in BOOLEAN : Apply(toggleGrayLining(This, b))

ToggleCircularGradient ==
    \E b \in BOOLEAN : Apply(toggleCircularGradient(This, b))

ToggleMesh == \E b \in BOOLEAN : Apply(toggleMesh(This, b))

ToggleMeshColorInversion ==
    \E b \in BOOLEAN : Apply(toggleMeshColorInversion(This, b))

SetTransparencyLevel ==
    \E level \in TransparencyInputs : Apply(setTransparencyLevel(This, level))

ToggleRotation == \E b \in BOOLEAN : Apply(toggleRotation(This, b))

ResetToDefaultView == Apply(resetToDefaultView(This))

Animate ==
    /\ isRotating => cylinder.rotation + rotationSpeed <= MaxAngle
    /\ \E dt \in FrameSteps : Apply(frame(This, dt))

Next ==
    \/ SetDisplayMode
    \/ SetColor
    \/ SetComplementaryColor
    \/ ToggleGradient
    \/ ToggleGrayLining
    \/ ToggleCircularGradient
    \/ ToggleMesh
    \/ ToggleMeshColorInversion
    \/ SetTransparencyLevel
    \/ ToggleRotation
    \/ ResetToDefaultView
    \/ Animate

Spec == Init /\ [][Next]_vars

----------------------------------------------------------------------------
(* The camera buttons of the view bar (setupQuickViewButtons) *)

\* a handler that started a camera loop: the request is noted with the
\* pose the new loop moves to
ApplyMove(t, by) ==
    /\ cameraRequests < MaxRequests
    /\ Assign(t)
    /\ lastRequested' =
           [by |-> by,
            position |-> t.cameraAnimations[Len(t.cameraAnimations)]
                             .newPosition,
            target |-> t.cameraAnimations[Len(t.cameraAnimations)].newTarget]
    /\ cameraRequests' = cameraRequests + 1
    /\ UNCHANGED <<colorHex, complementaryColorHex>>

\* a handler that placed the camera at once: the request is noted with the
\* pose it placed the camera at
ApplyPlacement(t, by) ==
    /\ cameraRequests < MaxRequests
    /\ Assign(t)
    /\ lastRequested' = [by |-> by, position |-> t.camera.position,
                         target |-> t.controls.target]
    /\ cameraRequests' = cameraRequests + 1
    /\ UNCHANGED <<colorHex, complementaryColorHex>>

SetSideView == ApplyMove(setSideView(This), "setSideView")

SetCrossSectionView ==
    ApplyMove(setCrossSectionView(This), "setCrossSectionView")

ZoomToFit == ApplyMove(zoomToFit(This), "zoomToFit")

ResetCamera == ApplyPlacement(resetCamera(This), "resetCamera")

\* resetToDefaultView as a camera request (it calls resetCamera)
ResetView == ApplyPlacement(resetToDefaultView(This), "resetCamera")

SetCamera == Apply(setCamera(This))

NextCamera ==
    \/ SetSideView
    \/ SetCrossSectionView
    \/ ZoomToFit
    \/ ResetCamera
    \/ ResetView
    \/ SetCamera
    \/ Animate

SpecCamera == Init /\ [][NextCamera]_vars

----------------------------------------------------------------------------
(* The stem controls of the advanced settings panel, with colour and rotation *)

SetStemOffset ==
    \E offset \in StemOffsetInputs : Apply(setStemOffset(This, offset))

SetStemSegments ==
    \E segments \in SegmentInputs : Apply(setStemSegments(This, segments))

ToggleCurvedStem == \E b \in BOOLEAN : Apply(toggleCurvedStem(This, b))

ToggleMultipleStems == \E b \in BOOLEAN : Apply(toggleMultipleStems(This, b))

ToggleGrid == \E b \in BOOLEAN : Apply(toggleGrid(This, b))

SetTheme == \E b \in BOOLEAN : Apply(setTheme(This, b))

SetRotationSpeed ==
    \E speed \in RotationSpeedInputs : Apply(setRotationSpeed(This, speed))

NextStem ==
    \/ SetStemOffset
    \/ SetStemSegments
    \/ ToggleCurvedStem
    \/ ToggleMultipleStems
    \/ ToggleGrid
    \/ SetTheme
    \/ SetRotationSpeed
    \/ SetColor
    \/ ToggleRotation
    \/ Animate

SpecStem == Init /\ [][NextStem]_vars

----------------------------------------------------------------------------
(* The setters of the display on their own: no frame passes between calls *)

NextSetters ==
    \/ SetDisplayMode
    \/ SetColor
    \/ SetComplementaryColor
    \/ ToggleGradient
    \/ ToggleGrayLining
    \/ ToggleCircularGradient
    \/ ToggleMesh
    \/ ToggleMeshColorInversion
    \/ SetTransparencyLevel
    \/ ToggleRotation

SpecSetters == Init /\ [][NextSetters]_vars

----------------------------------------------------------------------------
(* The colour controls of the page (ui.js) *)

\* the visualization and the two hex fields after updateColorDisplay
updateColorDisplay(t, hexColor) ==
    LET complementary == calculateComplementaryColor(hexColor)
        t1 == setColor(t, Color(hexColor))
    IN  [visualization |-> setComplementaryColor(t1, Color(complementary)),
         colorHex |-> toUpperCase(hexColor),
         complementaryColorHex |-> toUpperCase(complementary)]

\* the 'input' listener of the complementary hex field, on a valid value
complementaryHexInput(t, value) ==
    LET mainColor == calculateComplementaryColor(value)
        t1 == setColor(t, Color(mainColor))
    IN  [visualization |-> setComplementaryColor(t1, Color(value)),
         colorHex |-> toUpperCase(mainColor),
         complementaryColorHex |-> Str(value)]

\* the page after one of the two handlers above
ApplyPage(u) ==
    /\ Assign(u.visualization)
    /\ colorHex' = u.colorHex
    /\ complementaryColorHex' = u.complementaryColorHex
    /\ UNCHANGED <<lastRequested, cameraRequests>>

\* the colour picker, the hex field, and setupUI's closing call with #FF5733
UpdateColorDisplay ==
    \E hexColor \in HexInputs : ApplyPage(updateColorDisplay(This, hexColor))

ComplementaryHexInput ==
    \E value \in HexInputs : ApplyPage(complementaryHexInput(This, value))

\* a click on the complementary swatch, once the field holds a colour
PromoteComplementaryColor ==
    /\ complementaryColorHex # null
    /\ ApplyPage(updateColorDisplay(This, complementaryColorHex))

NextColor ==
    \/ UpdateColorDisplay
    \/ ComplementaryHexInput
    \/ PromoteComplementaryColor
    \/ ToggleMeshColorInversion

SpecColor == Init /\ [][NextColor]_vars

----------------------------------------------------------------------------
(* Properties *)

\* the colour a lining or surface material draws with
MaterialColor(m) ==
    IF m.type = "ShaderMaterial" THEN m.uniforms.mainColor ELSE m.color

\* the plain vertical-gradient material: mainColor and opacity, no color2
IsVerticalGradient(m) ==
    /\ HasUniform(m, "mainColor")
    /\ HasUniform(m, "opacity")
    /\ ~HasUniform(m, "color2")

IsFlatWireframe(m) ==
    /\ m.type = "MeshBasicMaterial"
    /\ m.wireframe

DisplayState ==
    <<displayMode, showGradient, useGrayLining, showCircularGradient,
      showMesh, invertMeshColor, transparencyLevel, isRotating, rotationSpeed,
      useCurvedStem, stemMaxOffset, curvedStemSegments, showMultipleStems,
      currentColor, complementaryColor>>

RenderState ==
    <<cylinder.material, innerCylinder.visible, innerCylinder.material,
      knitPattern, centerLine.isGroup, centerLine.straight,
      centerLine.curved>>

(* C1: the mesh overlay is visible exactly when the mode is construction   *)
(* ('knit-pattern') or the stored showMesh flag is true.                   *)
C1_MeshVisibility ==
    knitPattern.visible <=> (displayMode = "knit-pattern" \/ showMesh)

\* construction mode entered with showMesh false: the mesh is shown
C1_Witness ==
    /\ displayMode = "knit-pattern"
    /\ ~showMesh
    /\ knitPattern.visible

(* C2: setDisplayMode with a value outside the three valid modes leaves    *)
(* every field, material and visibility as it was and reports one error.   *)
C2_InvalidModeRejected ==
    \A mode \in InvalidModes :
        LET t == setDisplayMode(This, mode)
        IN  /\ t.consoleErrors = consoleErrors + 1
            /\ [t EXCEPT !.consoleErrors = consoleErrors] = This

\* an invalid call has been made and the machine is away from its defaults
C2_Witness ==
    /\ consoleErrors > 0
    /\ displayMode = "semi-transparent"
    /\ showGradient
    /\ showCircularGradient

(* C3: outside construction mode the inner lining is visible if and only   *)
(* if showGradient is true.                                                *)
C3_LiningVisibleIffEnabled ==
    displayMode # "knit-pattern" => (innerCylinder.visible <=> showGradient)

C5_ConstructionOuterWireframe ==
    displayMode = "knit-pattern" => IsFlatWireframe(cylinder.material)

(* C6: in semi-transparent mode the outer surface is the vertical gradient *)
(* with opacity equal to transparencyLevel.                                *)
C6_TransparentOuterOpacity ==
    displayMode = "semi-transparent" =>
        /\ IsVerticalGradient(cylinder.material)
        /\ cylinder.material.uniforms.opacity = transparencyLevel

(* C7: in semi-transparent mode with the lining enabled the lining's       *)
(* opacity is max(0.05, transparencyLevel * 0.5).                          *)
C7_TransparentLiningOpacity ==
    (displayMode = "semi-transparent" /\ showGradient) =>
        /\ HasUniform(innerCylinder.material, "opacity")
        /\ innerCylinder.material.uniforms.opacity
              = Max(MinInnerTransparency, transparencyLevel \div 2)

C9_RenderDeterminedByDisplayState ==
    [][DisplayState' = DisplayState => RenderState' = RenderState]_vars

(* C10: resetToDefaultView ends with showGradient, useGrayLining,          *)
(* showCircularGradient and isRotating false, the three rotation angles 0, *)
(* displayMode 'solid' and the outer surface the plain vertical gradient   *)
(* at opacity 1.0.                                                         *)
C10_ResetToDefaultView ==
    LET t == resetToDefaultView(This)
    IN  /\ ~t.showGradient
        /\ ~t.useGrayLining
        /\ ~t.showCircularGradient
        /\ ~t.isRotating
        /\ t.cylinder.rotation = 0
        /\ t.innerCylinder.rotation = 0
        /\ t.centerLine.rotation = 0
        /\ t.displayMode = "solid"
        /\ IsVerticalGradient(t.cylinder.material)
        /\ t.cylinder.material.uniforms.opacity = FullOpacity

\* a state resetToDefaultView has just produced: a fixed point of the reset
\* in which the lining is still on screen
C10_Witness ==
    /\ This = resetToDefaultView(This)
    /\ innerCylinder.visible
    /\ currentColor # InitialColor

(* C18: the mesh overlay's colour is the hue-inverted base colour while    *)
(* invertMeshColor is true and the base colour while it is false, after    *)
(* any sequence of toggleMeshColorInversion, setColor and setDisplayMode.  *)
C18_MeshColorFollowsInversion ==
    knitPattern.color =
        IF invertMeshColor THEN HueInvert(currentColor) ELSE currentColor

(* C20: setTransparencyLevel(x) stores min(1, max(0, x)): 1.5 is stored as *)
(* 1.0 and -0.3 as 0.0; the stored level is within [0, 1] in every state.  *)
C20_TransparencyClamped ==
    /\ transparencyLevel \in 0..FullOpacity
    /\ \A x \in TransparencyInputs :
           setTransparencyLevel(This, x).transparencyLevel
               = Min(FullOpacity, Max(0, x))
    /\ setTransparencyLevel(This, 1500).transparencyLevel = FullOpacity
    /\ setTransparencyLevel(This, 0 - 300).transparencyLevel = 0

\* a level above 1 was passed and the clamped level is the stored one
C20_Witness ==
    /\ transparencyLevel = FullOpacity
    /\ transparencyLevel # InitialTransparencyLevel
    /\ displayMode = "semi-transparent"
    /\ cylinder.material.uniforms.opacity = FullOpacity

\* the channel-wise inversion of a colour value
ChannelInvert(c) == RGB(255 - Red(c), 255 - Green(c), 255 - Blue(c))

(* C16: after construction and after every base-colour change the          *)
(* visualization's complementaryColor is the channel-wise inversion of its *)
(* currentColor; for the base colour #FF5733 it is #00A8CC.                *)
C16_ComplementIsInversion ==
    /\ complementaryColor = ChannelInvert(currentColor)
    /\ currentColor = InitialColor => complementaryColor = 43212

\* what a 6-digit colour string says, whatever the case of its letters
SameColorText(a, b) == toUpperCase(a) = toUpperCase(b)

(* C17: calculateComplementaryColor is an involution on 6-digit hex        *)
(* colours, up to letter case, and each channel of its result is 255 minus *)
(* the input channel written as two zero-padded hex digits.                *)
C17_ComplementInvolution ==
    \A c \in HexInputs \cup ({colorHex, complementaryColorHex} \ {null}) :
        LET out == calculateComplementaryColor(c)
        IN  /\ Len(out) = 7
            /\ out[1] = "#"
            /\ \A k \in {0, 2, 4} :
                   parseInt16(replaceHash(out), k)
                       = 255 - parseInt16(replaceHash(c), k)
            /\ SameColorText(calculateComplementaryColor(out), c)

\* the complement of a colour with channels above 0xEF (their complements
\* need the padding) is in the complementary field, and is the text
\* whose complement is the base field's text
C17_Witness ==
    /\ colorHex = <<"#", "F", "F", "F", "F", "5", "7">>
    /\ complementaryColorHex = <<"#", "0", "0", "0", "0", "A", "8">>
    /\ SameColorText(calculateComplementaryColor(complementaryColorHex),
                     colorHex)

(* C19: hue inversion applied twice gives back the colour it started from, *)
(* for every base colour of non-zero saturation; applied once to a gray it *)
(* gives the same gray.                                                    *)
C19_HueInversionInvolution ==
    /\ HueInvert(HueInvert(currentColor)) = currentColor
    /\ getHSL(currentColor).s = 0 => HueInvert(currentColor) = currentColor
    /\ invertMeshColor /\ knitPattern.color # currentColor
           => HueInvert(knitPattern.color) = currentColor

\* the mesh carries the inversion of a saturated base colour, and inverting
\* the mesh colour gives the base colour back
C19_Witness ==
    /\ invertMeshColor
    /\ getHSL(currentColor).s > 0
    /\ knitPattern.color = HueInvert(currentColor)
    /\ knitPattern.color # currentColor
    /\ HueInvert(knitPattern.color) = currentColor

\* a pose OrbitControls leaves as it is: the camera between minDistance and
\* maxDistance from the target
WithinLimits(position, target) ==
    /\ LengthSq(Offset(position, target)) >= MinDistance * MinDistance
    /\ LengthSq(Offset(position, target)) <= MaxDistance * MaxDistance

(* C11: camera moves do not queue.  Once every scheduled camera frame has  *)
(* run, the camera position and look-at are those of the most recently     *)
(* requested move, whatever was in flight when it was requested (stated    *)
(* for requested poses the controls' distance limits allow).               *)
C11_LatestMoveWins ==
    (/\ Len(cameraAnimations) = 0
     /\ lastRequested.by # "none"
     /\ WithinLimits(lastRequested.position, lastRequested.target))
        => /\ camera.position = lastRequested.position
           /\ controls.target = lastRequested.target

(* C12: resetCamera moves the camera to the stored default pose            *)
(* (defaultCameraPosition: (0, 3, 4) looking at the origin from            *)
(* construction, or the pose last stored by setCamera or                   *)
(* setCurrentCameraAsDefault); with no other move in flight the camera is  *)
(* at that pose when the reset completes.                                  *)
C12_ResetToStoredDefault ==
    Len(cameraAnimations) = 0 =>
        /\ resetCamera(This).camera.position = defaultCameraPosition.position
        /\ resetCamera(This).controls.target = defaultCameraPosition.lookAt
        /\ resetCamera(setCurrentCameraAsDefault(This)).camera.position
              = camera.position

\* the loop the latest request of t started
LatestLoop(t) == t.cameraAnimations[Len(t.cameraAnimations)]

(* C13: zoomToFit moves the camera to the pose saved by the latest         *)
(* setCamera if there was one, and otherwise to about (0.005, 2.336,       *)
(* 1.940) looking at the origin.  The saved pose is the camera's pose at   *)
(* the setCamera call and is left alone by resetCamera,                    *)
(* resetToDefaultView, the preset moves, zoomToFit, mode changes and       *)
(* frames; a zoomToFit followed by no other request ends at its pose.      *)
C13_ZoomToFitPose ==
    /\ LatestLoop(zoomToFit(This)).newPosition
          = IF savedCameraPosition # null THEN savedCameraPosition
            ELSE FitPosition
    /\ LatestLoop(zoomToFit(This)).newTarget
          = IF savedCameraPosition # null THEN savedCameraTarget
            ELSE FitTarget
    /\ LatestLoop(zoomToFit(This)).startPosition = camera.position
    /\ (savedCameraPosition = null) = (savedCameraTarget = null)
    /\ setCamera(This).savedCameraPosition = camera.position
    /\ setCamera(This).savedCameraTarget = controls.target
    /\ \A t \in {resetCamera(This), resetToDefaultView(This),
                 setSideView(This), setCrossSectionView(This),
                 zoomToFit(This)}
              \cup {setDisplayMode(This, mode) : mode \in ValidModes}
              \cup {frame(This, dt) : dt \in FrameSteps} :
           /\ t.savedCameraPosition = savedCameraPosition
           /\ t.savedCameraTarget = savedCameraTarget
    /\ (lastRequested.by = "zoomToFit" /\ Len(cameraAnimations) = 0)
           => /\ camera.position = lastRequested.position
              /\ controls.target = lastRequested.target

\* side view reached and saved, the camera reset, then zoomToFit: the move
\* has ended at the saved pose, away from the reset pose
C13_Witness ==
    /\ lastRequested.by = "zoomToFit"
    /\ cameraRequests = MaxRequests
    /\ Len(cameraAnimations) = 0
    /\ savedCameraPosition = <<5000, 0, 0>>
    /\ camera.position = savedCameraPosition
    /\ controls.target = savedCameraTarget

(* C14: a move that is alone in flight and whose next frame brings its     *)
(* progress to 1 ends that frame with the camera position and look-at at   *)
(* the requested target and with no further frame scheduled.               *)
C14_MoveEndsAtTarget ==
    \A dt \in FrameSteps :
        (/\ Len(cameraAnimations) = 1
         /\ cameraAnimations[1].elapsed + dt >= cameraAnimations[1].duration)
            => /\ frame(This, dt).camera.position
                     = cameraAnimations[1].newPosition
               /\ frame(This, dt).controls.target
                     = cameraAnimations[1].newTarget
               /\ Len(frame(This, dt).cameraAnimations) = 0

\* what renderer.render draws from: the camera pose and the rotation angles
RenderInput(t) ==
    <<t.camera.position, t.controls.target, t.cylinder.rotation,
      t.innerCylinder.rotation, t.centerLine.rotation>>

(* C15: within a frame every mutation of that frame (rotation advance,     *)
(* camera interpolation step) is applied before that frame's               *)
(* renderer.render: what the frame draws is what the frame leaves.         *)
C15_MutationsBeforeRender ==
    \A dt \in FrameSteps :
        RenderInput(animate(This)) = RenderInput(frame(This, dt))

----------------------------------------------------------------------------
(* Stem settings *)

\* C21: setStemSegments(n) stores min(24, max(4, n)) for every integer n (30
\* is stored as 24, 1 as 4), and curvedStemSegments, 12 after construction,
\* is within [4, 24] in every reachable state
C21_StemSegmentsClamped ==
    /\ Constructor.curvedStemSegments = 12
    /\ curvedStemSegments \in 4..24
    /\ \A n \in (0 - 3)..30 :
          setStemSegments(This, n).curvedStemSegments
              = (IF n > 24 THEN 24 ELSE IF n < 4 THEN 4 ELSE n)

\* both ends of the clamp have been stored and 24 stems have been built
C21_Witness ==
    /\ curvedStemSegments = 24
    /\ useCurvedStem /\ showMultipleStems
    /\ Len(centerLine.curved) = 24
    /\ setStemSegments(This, 1).curvedStemSegments = 4

\* C22: after any sequence of setStemOffset calls stemMaxOffset is within
\* [0, 1], and every curved stem is built from an offset in that range
C22_StemOffsetClamped ==
    /\ stemMaxOffset \in 0..1000
    /\ \A k \in 1..Len(centerLine.curved) :
          centerLine.curved[k].offset \in 0..1000

\* the stems the current settings ask for: index i of n stands for the angle
\* 2*pi*i/n
ExpectedStems ==
    IF showMultipleStems
    THEN [k \in 1..curvedStemSegments |->
            [i |-> k - 1, of |-> curvedStemSegments, offset |-> stemMaxOffset]]
    ELSE << [i |-> 0, of |-> 1, offset |-> stemMaxOffset] >>

\* the placement of the curved stems in the scene (colours left out)
StemPlacement ==
    [k \in 1..Len(centerLine.curved) |->
        [i |-> centerLine.curved[k].i, of |-> centerLine.curved[k].of,
         offset |-> centerLine.curved[k].offset]]

\* C23: in every reachable state the stems in the scene are those the
\* current settings determine: with useCurvedStem one straight central stem
\* and curvedStemSegments curved stems at the angles 2*pi*i/n (or one at
\* angle 0 when showMultipleStems is off), all with the current
\* stemMaxOffset; without useCurvedStem one straight stem only
C23_StemsFollowSettings ==
    /\ centerLine.isGroup = useCurvedStem
    /\ useCurvedStem => StemPlacement = ExpectedStems
    /\ ~useCurvedStem => Len(centerLine.curved) = 0

\* settings that differ from the constructor's are on display
C23_Witness ==
    /\ useCurvedStem /\ showMultipleStems
    /\ stemMaxOffset = 700
    /\ curvedStemSegments = 8
    /\ Len(centerLine.curved) = 8
    /\ centerLine.curved[8].i = 7

\* C26: after setColor(c) every stem shows colours derived from c: the five
\* control colours of each curved stem, and the colour of the straight
\* central stem, alone or as the first child of the group
C26_StemsRecoloured ==
    \A c \in ColorInputs :
        LET t == setColor(This, c)
        IN  /\ t.centerLine.straight = c
            /\ \A k \in 1..Len(t.centerLine.curved) :
                  t.centerLine.curved[k].colors = StemColors(c)

\* C27: cylinder, lining and stem have the same rotation angle in every
\* reachable state
C27_RotationsEqual ==
    /\ cylinder.rotation = innerCylinder.rotation
    /\ cylinder.rotation = centerLine.rotation

Rotations(t) ==
    << t.cylinder.rotation, t.innerCylinder.rotation, t.centerLine.rotation >>

\* C28: toggleRotation(true) sets the three angles to 0;
\* toggleRotation(false) leaves them as they are, and so do the frames that
\* follow while rotation is off
C28_RotationToggle ==
    LET on == toggleRotation(This, TRUE)
        off == toggleRotation(This, FALSE)
    IN  /\ on.isRotating /\ Rotations(on) = <<0, 0, 0>>
        /\ ~off.isRotating /\ Rotations(off) = Rotations(This)
        /\ Rotations(animate(off)) = Rotations(This)
        /\ Rotations(animate(animate(off))) = Rotations(This)
        /\ ~isRotating => Rotations(animate(This)) = Rotations(This)

\* the model stopped at an angle other than 0
C28_Witness ==
    /\ ~isRotating
    /\ cylinder.rotation > 0
    /\ Rotations(toggleRotation(This, TRUE)) = <<0, 0, 0>>

----------------------------------------------------------------------------
(* Setters and the display state *)

\* the settings of the display, by name
DisplayFields(t) ==
    [displayMode |-> t.displayMode, showGradient |-> t.showGradient,
     useGrayLining |-> t.useGrayLining,
     showCircularGradient |-> t.showCircularGradient,
     showMesh |-> t.showMesh, invertMeshColor |-> t.invertMeshColor,
     transparencyLevel |-> t.transparencyLevel,
     isRotating |-> t.isRotating, rotationSpeed |-> t.rotationSpeed,
     showGrid |-> t.showGrid, useCurvedStem |-> t.useCurvedStem,
     stemMaxOffset |-> t.stemMaxOffset,
     curvedStemSegments |-> t.curvedStemSegments,
     showMultipleStems |-> t.showMultipleStems,
     isDarkMode |-> t.isDarkMode, currentColor |-> t.currentColor,
     complementaryColor |-> t.complementaryColor]

\* t is the current state with the setting own set to value, and no other
\* setting changed
ChangesOnly(t, own, value) ==
    DisplayFields(t) = [DisplayFields(This) EXCEPT ![own] = value]

\* C24: every setter other than setDisplayMode and resetToDefaultView leaves
\* displayMode, and every setting other than its own, unchanged, and stores
\* its own; the frame changes no setting
C24_SettersChangeOwnField ==
    /\ \A b \in BOOLEAN :
          /\ ChangesOnly(toggleGradient(This, b), "showGradient", b)
          /\ ChangesOnly(toggleGrayLining(This, b), "useGrayLining", b)
          /\ ChangesOnly(toggleCircularGradient(This, b),
                         "showCircularGradient", b)
          /\ ChangesOnly(toggleMesh(This, b), "showMesh", b)
          /\ ChangesOnly(toggleMeshColorInversion(This, b),
                         "invertMeshColor", b)
          /\ ChangesOnly(toggleRotation(This, b), "isRotating", b)
          /\ ChangesOnly(toggleGrid(This, b), "showGrid", b)
          /\ ChangesOnly(toggleMultipleStems(This, b), "showMultipleStems", b)
          /\ ChangesOnly(toggleCurvedStem(This, b), "useCurvedStem", b)
          /\ ChangesOnly(setTheme(This, b), "isDarkMode", b)
    /\ \A level \in TransparencyInputs :
          ChangesOnly(setTransparencyLevel(This, level), "transparencyLevel",
                      IF level < 0 THEN 0
                      ELSE IF level > FullOpacity THEN FullOpacity ELSE level)
    /\ \A speed \in RotationSpeedInputs :
          ChangesOnly(setRotationSpeed(This, speed), "rotationSpeed", speed)
    /\ \A offset \in StemOffsetInputs :
          ChangesOnly(setStemOffset(This, offset), "stemMaxOffset", offset)
    /\ \A segments \in SegmentInputs :
          ChangesOnly(setStemSegments(This, segments), "curvedStemSegments",
                      IF segments < 4 THEN 4
                      ELSE IF segments > 24 THEN 24 ELSE segments)
    /\ \A color \in ColorInputs :
          ChangesOnly(setColor(This, color), "currentColor", color)
    /\ \A color \in ComplementaryInputs :
          ChangesOnly(setComplementaryColor(This, color),
                      "complementaryColor", color)
    /\ \A dt \in FrameSteps : DisplayFields(frame(This, dt)) = DisplayFields(This)

\* setters have acted in a mode other than the constructor's
C24_Witness ==
    /\ displayMode = "knit-pattern"
    /\ showGradient /\ showCircularGradient /\ showMesh /\ isRotating
    /\ currentColor # InitialColor
    /\ toggleGradient(This, FALSE).displayMode = "knit-pattern"

----------------------------------------------------------------------------
(* Circular gradient *)

IsCircularBlend(m) ==
    /\ HasUniform(m, "mainColor")
    /\ HasUniform(m, "color2")

\* C25: outside construction mode the outer surface carries the circular
\* blend of currentColor and complementaryColor whenever
\* showCircularGradient is true, and the plain vertical gradient whenever it
\* is false
C25_CircularGradientFollowsFlag ==
    displayMode # "knit-pattern" =>
        IF showCircularGradient
        THEN /\ IsCircularBlend(cylinder.material)
             /\ cylinder.material.uniforms.mainColor = currentColor
             /\ cylinder.material.uniforms.color2 = complementaryColor
        ELSE IsVerticalGradient(cylinder.material)

----------------------------------------------------------------------------
(* Transparency level across modes *)

\* C29: in 'solid' and 'knit-pattern' mode setTransparencyLevel records the
\* clamped level and leaves outer surface and lining as they are; the next
\* setDisplayMode('semi-transparent') shows the outer surface with the level
\* stored last, in whatever mode it was stored
C29_LevelAppliedOnEntry ==
    /\ displayMode \in {"solid", "knit-pattern"} =>
          \A level \in TransparencyInputs :
              LET t == setTransparencyLevel(This, level)
                  m == setDisplayMode(t, "semi-transparent").cylinder.material
              IN  /\ t.transparencyLevel
                        = (IF level < 0 THEN 0
                           ELSE IF level > FullOpacity THEN FullOpacity
                           ELSE level)
                  /\ t.cylinder = cylinder
                  /\ t.innerCylinder = innerCylinder
                  /\ m.transparent
                  /\ m.uniforms.opacity = t.transparencyLevel
    /\ LET m == setDisplayMode(This, "semi-transparent").cylinder.material
       IN  m.transparent /\ m.uniforms.opacity = transparencyLevel

\* a level other than the constructor's is on record in construction mode
\* and the switch to semi-transparent mode shows it
C29_Witness ==
    /\ displayMode = "knit-pattern"
    /\ transparencyLevel = 0
    /\ cylinder.material.type = "MeshBasicMaterial"
    /\ setDisplayMode(This, "semi-transparent").cylinder.material.uniforms.opacity
          = 0

----------------------------------------------------------------------------
(* Idempotence of regeneration *)

\* what is drawn for the state t: materials (with their opacities),
\* visibilities, the stems and the grid
RenderFields(t) ==
    [cylinder |-> t.cylinder.material,
     lining |-> t.innerCylinder.material,
     liningVisible |-> t.innerCylinder.visible,
     knitPattern |-> t.knitPattern,
     stemIsGroup |-> t.centerLine.isGroup,
     straightStem |-> t.centerLine.straight,
     curvedStems |-> t.centerLine.curved,
     gridHelper |-> t.gridHelper]

\* the settings and the picture of the state t
Outcome(t) == << DisplayFields(t), RenderFields(t) >>

\* the state twice, left by the second of two calls, shows the same
\* settings and the same picture as the state once, left by the first
SecondCallSame(once, twice) == Outcome(twice) = Outcome(once)

\* C30: setDisplayMode(m) with a valid m, and every toggle setter, called
\* twice in succession with the same argument leaves the same settings and
\* the same render state as called once
C30_RegenerationIdempotent ==
    /\ \A mode \in ValidModes :
          SecondCallSame(setDisplayMode(This, mode),
              setDisplayMode(setDisplayMode(This, mode), mode))
    /\ \A b \in BOOLEAN :
          /\ SecondCallSame(toggleGradient(This, b),
              toggleGradient(toggleGradient(This, b), b))
          /\ SecondCallSame(toggleGrayLining(This, b),
              toggleGrayLining(toggleGrayLining(This, b), b))
          /\ SecondCallSame(toggleCircularGradient(This, b),
              toggleCircularGradient(toggleCircularGradient(This, b), b))
          /\ SecondCallSame(toggleMesh(This, b),
              toggleMesh(toggleMesh(This, b), b))
          /\ SecondCallSame(toggleMeshColorInversion(This, b),
              toggleMeshColorInversion(toggleMeshColorInversion(This, b), b))
          /\ SecondCallSame(toggleRotation(This, b),
              toggleRotation(toggleRotation(This, b), b))
          /\ SecondCallSame(toggleGrid(This, b),
              toggleGrid(toggleGrid(This, b), b))
          /\ SecondCallSame(toggleMultipleStems(This, b),
              toggleMultipleStems(toggleMultipleStems(This, b), b))
          /\ SecondCallSame(toggleCurvedStem(This, b),
              toggleCurvedStem(toggleCurvedStem(This, b), b))

\* a second call that follows a first call which did change the picture:
\* the circular blend replaced in semi-transparent mode with the lining on,
\* and the mesh colour inverted
C30_Witness ==
    /\ displayMode = "semi-transparent"
    /\ showGradient /\ showCircularGradient /\ ~invertMeshColor
    /\ currentColor = InitialColor
    /\ RenderFields(toggleCircularGradient(This, FALSE)) # RenderFields(This)
    /\ RenderFields(toggleMeshColorInversion(This, TRUE)) # RenderFields(This)
    /\ SecondCallSame(toggleMeshColorInversion(This, TRUE),
          toggleMeshColorInversion(
              toggleMeshColorInversion(This, TRUE), TRUE))

====
